---- MODULE Spec2Model ----
(***************************************************************************)
(* A model of work_managers/zeromq.py: the ZMQWMServer coordinator (its    *)
(* startup rendezvous, its dispatch, receive and announce loops, submit    *)
(* and shutdown) and the ZMQWMProcess worker loop.                         *)
(*                                                                         *)
(* Python values that cross a socket are modelled as follows.  A task      *)
(* message is the tuple <<instance_id, task_id, fn, args, kwargs>>, a      *)
(* result message the tuple <<instance_id, task_id, result_type, payload>>.*)
(* A payload is a record [val, exc, tb]: a return value v is               *)
(* [val |-> v, exc |-> "", tb |-> ""], an (exception, traceback_str) pair  *)
(* is [val |-> NoVal, exc |-> e, tb |-> t].                                *)
(***************************************************************************)
EXTENDS Integers, Sequences, FiniteSets, TLC

\* ---------------------------------------------------------------- bounds
MaxTasks == 2          \* submit() calls made in one run
MaxShutdownCalls == 2  \* shutdown() calls made in one run
MaxZombieResults == 1  \* result messages pushed by clients other than our workers
MaxZombieTasks == 2    \* task messages that reach a worker from elsewhere than our dispatcher
MaxPings == 2          \* heartbeat timeouts of the announce loop in one run
MaxRelays == 2         \* messages other than 'shutdown' sent to the announce loop
MaxTicks == 12         \* time units by which the clock advances in one run
NumCallers == 2        \* threads calling the public API
NumWorkers == 1        \* ZMQWMProcess instances

\* ------------------------------------------------------- program constants
HWM == 1               \* master_task_socket.setsockopt(zmq.HWM,1)
TaskArity == 5         \* task_tuple[:5]
ResultArity == 4       \* (instance_id, task_id, result_type, payload) = ...
NumLoops == 3          \* the three ctlsocket.recv() calls of startup()
server_heartbeat_interval == 10   \* self.server_heartbeat_interval = 10

Callers == 1..NumCallers
Workers == 1..NumWorkers

\* self.instance_id = uuid.uuid4(): our own identity and another server's
instance_id == "me"
OtherInstance == "other"
NoVal == -1

\* the endpoints of ZMQWMServer.__init__
startup_ctl_endpoint == "startup_ctl"
dispatch_thread_ctl_endpoint == "dispatch_ctl"
receive_thread_ctl_endpoint == "receive_ctl"
announce_endpoint == "announce_ctl"
master_task_endpoint == "task"
master_result_endpoint == "result"
master_announce_endpoint == "announce"

CtlEndpoints ==
  {startup_ctl_endpoint, dispatch_thread_ctl_endpoint,
   receive_thread_ctl_endpoint, announce_endpoint}

LoopCtlEndpoints ==
  <<dispatch_thread_ctl_endpoint, receive_thread_ctl_endpoint, announce_endpoint>>

\* ------------------------------------------------------------ task inputs
\* the task functions a caller submits, with their arguments
TaskInputs == { <<"add", <<2, 3>>>>, <<"div", <<1, 0>>>> }

PyValue(v) == [val |-> v, exc |-> "", tb |-> ""]
PyExcInfo(e, t) == [val |-> NoVal, exc |-> e, tb |-> t]

\* fn(*args, **kwargs): what the call does, "return" or "raise"
Call(fn, args) ==
  IF fn = "add" THEN [kind |-> "return", val |-> args[1] + args[2], exc |-> ""]
  ELSE IF args[2] = 0 THEN [kind |-> "raise", val |-> NoVal, exc |-> "ZeroDivisionError"]
  ELSE [kind |-> "return", val |-> args[1] \div args[2], exc |-> ""]

\* traceback.format_exc() for an exception raised by the task function
format_exc(e) == "Traceback: " \o e

VARIABLES
  spc,              \* position of the thread inside startup()
  acks_read,        \* ctlsocket.recv() calls of startup() that have returned
  dpc, cpc, apc,    \* positions of _dispatch_loop, _receive_loop, _announce_loop
  bound,            \* endpoints that currently have a bound socket
  ctl,              \* messages queued on each inproc control endpoint
  task_queue,       \* self.task_queue
  pending_futures,  \* self.pending_futures: task_id -> index into futures
  futures,          \* every WMFuture created, in creation order
  shutdown_signaled,\* self._shutdown_signaled
  dtask,            \* task_tuple of _dispatch_loop (<<>> when none is held)
  task_channel,     \* task messages sent by the PUSH socket, not yet received
  result_channel,   \* result messages pushed to the PULL socket, not yet received
  announce_channel, \* messages sent on the PUB socket
  kpc,              \* position of each API caller thread
  klocal,           \* the local variables of the call each caller thread is in
  wpc,              \* position of each worker process
  wsockets,         \* the sockets each worker has open
  wtask,            \* task_tuple of each worker
  last_seen_server_id, \* last_seen_server_id of each worker
  wresult,          \* result_tuple of each worker
  clock,            \* what time.time() returns
  last_announce,    \* last_announce of _announce_loop
  remaining_interval, \* remaining_interval of _announce_loop
  poll_entered,     \* the time at which _announce_loop entered poller.poll
  hist              \* history: what has happened so far (not program state)

vars ==
  <<spc, acks_read, dpc, cpc, apc, bound, ctl, task_queue, pending_futures,
    futures, shutdown_signaled, dtask, task_channel, result_channel,
    announce_channel, kpc, klocal, wpc, wsockets, wtask, last_seen_server_id,
    wresult, clock, last_announce, remaining_interval, poll_entered, hist>>

\* ------------------------------------------------------------- WMFuture
\* WMFuture(): a pending future with a task_id no other future has
NewTaskId(fts) == Len(fts) + 1

NoPayload == [val |-> NoVal, exc |-> "", tb |-> ""]

WMFuture(fts) ==
  [task_id |-> NewTaskId(fts), state |-> "pending", result |-> NoPayload,
   exception |-> "", traceback |-> "", nsets |-> 0]

\* ft._set_result(payload)
set_result(ft, payload) ==
  [ft EXCEPT !.state = "fulfilled", !.result = payload, !.nsets = @ + 1]

\* ft._set_exception(*payload)
set_exception(ft, payload) ==
  [ft EXCEPT !.state = "failed", !.exception = payload.exc,
             !.traceback = payload.tb, !.nsets = @ + 1]

\* --------------------------------------------------------------- helpers
\* the dict d with key k removed / with d[k] = v
DictPop(d, k) == [x \in (DOMAIN d) \ {k} |-> d[x]]
DictOnly(d, k, v) == [x \in {k} |-> v]
DictSet(d, k, v) == [x \in (DOMAIN d) \cup {k} |-> IF x = k THEN v ELSE d[x]]

Range(s) == {s[i] : i \in DOMAIN s}

\* ZMQBase._signal_thread(endpoint, message): connect a PUSH socket to the
\* inproc endpoint and send; a message for an endpoint nobody has bound is
\* not delivered
SignalThread(c, endpoint, message) ==
  IF endpoint \in bound THEN [c EXCEPT ![endpoint] = Append(@, message)] ELSE c

\* recvall(socket): every message queued on the socket, leaving it empty
recvall(c, endpoint) == c[endpoint]
Drained(c, endpoint) == [c EXCEPT ![endpoint] = <<>>]

Bump(field) == [hist EXCEPT ![field] = @ + 1]

\* ------------------------------------------------------------------ Init
Init ==
  /\ spc = "new"
  /\ acks_read = 0
  /\ dpc = "unstarted" /\ cpc = "unstarted" /\ apc = "unstarted"
  /\ bound = {}
  /\ ctl = [e \in CtlEndpoints |-> <<>>]
  /\ task_queue = <<>>
  /\ pending_futures = <<>>
  /\ futures = <<>>
  /\ shutdown_signaled = FALSE
  /\ dtask = <<>>
  /\ task_channel = <<>>
  /\ result_channel = <<>>
  /\ announce_channel = <<>>
  /\ kpc = [c \in Callers |-> "idle"]
  /\ klocal = [c \in Callers |-> [ft |-> 0, fn |-> "", args |-> <<>>, i |-> 0]]
  /\ wpc = [w \in Workers |-> "start"]
  /\ wsockets = [w \in Workers |-> {}]
  /\ wtask = [w \in Workers |-> <<>>]
  /\ last_seen_server_id = [w \in Workers |-> "None"]
  /\ wresult = [w \in Workers |-> <<>>]
  /\ clock = server_heartbeat_interval   \* time.time() is far above one interval
  /\ last_announce = 0
  /\ remaining_interval = server_heartbeat_interval
  /\ poll_entered = 0
  /\ hist = [appended |-> <<>>, sent |-> <<>>,
             shutdown_sent |-> [e \in CtlEndpoints |-> 0],
             submits |-> 0, sdcalls |-> 0, sddone |-> 0, sdactive |-> 0,
             overlap |-> FALSE, unbound_signal |-> FALSE,
             zres |-> 0, ztasks |-> 0, pings |-> 0, invoked |-> 0,
             relays |-> 0, relay_read |-> <<>>, ticks |-> 0,
             submitted |-> <<>>, popped |-> {}]

\* --------------------------------------------------------------- startup()
\* ctlsocket = self.context.socket(zmq.PULL); ctlsocket.bind(...)
StartupBind ==
  /\ spc = "new"
  /\ bound' = bound \cup {startup_ctl_endpoint}
  /\ spc' = "start_dispatch"
  /\ UNCHANGED <<acks_read, dpc, cpc, apc, ctl, task_queue, pending_futures,
                 futures, shutdown_signaled, dtask, task_channel, result_channel,
                 announce_channel, kpc, klocal, wpc, wsockets, wtask,
                 last_seen_server_id, wresult, hist,
                 clock, last_announce, remaining_interval, poll_entered>>

\* self._dispatch_thread.start(), self._receive_thread.start(),
\* self._announce_thread.start()
StartupStartThreads ==
  /\ \/ spc = "start_dispatch" /\ dpc' = "bind_task" /\ spc' = "start_receive"
        /\ UNCHANGED <<cpc, apc>>
     \/ spc = "start_receive" /\ cpc' = "bind_result" /\ spc' = "start_announce"
        /\ UNCHANGED <<dpc, apc>>
     \/ spc = "start_announce" /\ apc' = "bind_announce" /\ spc' = "recv"
        /\ UNCHANGED <<dpc, cpc>>
  /\ UNCHANGED <<acks_read, bound, ctl, task_queue, pending_futures,
                 futures, shutdown_signaled, dtask, task_channel, result_channel,
                 announce_channel, kpc, klocal, wpc, wsockets, wtask,
                 last_seen_server_id, wresult, hist,
                 clock, last_announce, remaining_interval, poll_entered>>

\* the number of ctlsocket.recv() calls startup() makes before it closes
AcksAwaitedOneShort == NumLoops - 1
AcksAwaited == NumLoops

\* ctlsocket.recv(): blocks until an acknowledgment is queued
StartupRecv ==
  /\ spc = "recv"
  /\ ctl[startup_ctl_endpoint] # <<>>
  /\ ctl' = [ctl EXCEPT ![startup_ctl_endpoint] = Tail(@)]
  /\ acks_read' = acks_read + 1
  /\ spc' = IF acks_read' >= AcksAwaited THEN "close" ELSE "recv"
  /\ UNCHANGED <<dpc, cpc, apc, bound, task_queue, pending_futures,
                 futures, shutdown_signaled, dtask, task_channel, result_channel,
                 announce_channel, kpc, klocal, wpc, wsockets, wtask,
                 last_seen_server_id, wresult, hist,
                 clock, last_announce, remaining_interval, poll_entered>>

\* ctlsocket.close(); startup() returns
StartupClose ==
  /\ spc = "close"
  /\ bound' = bound \ {startup_ctl_endpoint}
  /\ ctl' = Drained(ctl, startup_ctl_endpoint)
  /\ spc' = "returned"
  /\ UNCHANGED <<acks_read, dpc, cpc, apc, task_queue, pending_futures,
                 futures, shutdown_signaled, dtask, task_channel, result_channel,
                 announce_channel, kpc, klocal, wpc, wsockets, wtask,
                 last_seen_server_id, wresult, hist,
                 clock, last_announce, remaining_interval, poll_entered>>

\* ---------------------------------------------------------- _dispatch_loop
\* bind the task socket, bind the control socket, acknowledge
DispatchSetup ==
  /\ \/ /\ dpc = "bind_task"
        /\ bound' = bound \cup {master_task_endpoint}
        /\ dpc' = "bind_ctl"
        /\ ctl' = ctl
     \/ /\ dpc = "bind_ctl"
        /\ bound' = bound \cup {dispatch_thread_ctl_endpoint}
        /\ dpc' = "ack"
        /\ ctl' = ctl
     \/ /\ dpc = "ack"
        /\ ctl' = SignalThread(ctl, startup_ctl_endpoint, "")
        /\ dpc' = "poll"
        /\ bound' = bound
  /\ UNCHANGED <<spc, acks_read, cpc, apc, task_queue, pending_futures,
                 futures, shutdown_signaled, dtask, task_channel, result_channel,
                 announce_channel, kpc, klocal, wpc, wsockets, wtask,
                 last_seen_server_id, wresult, hist,
                 clock, last_announce, remaining_interval, poll_entered>>

\* poller.poll(100) returns when a control message is queued, and after
\* 100 ms when none is
PollReturnsOnMessage(messages) == messages # <<>>
PollReturns(messages) == TRUE

\* poller.poll(100); recvall(ctlsocket); if 'shutdown' in messages: return
DispatchPoll ==
  /\ dpc = "poll"
  /\ PollReturns(ctl[dispatch_thread_ctl_endpoint])
  /\ LET messages == recvall(ctl, dispatch_thread_ctl_endpoint)
     IN /\ ctl' = Drained(ctl, dispatch_thread_ctl_endpoint)
        /\ dpc' = IF "shutdown" \in Range(messages) THEN "close" ELSE "pop"
  /\ UNCHANGED <<spc, acks_read, cpc, apc, bound, task_queue, pending_futures,
                 futures, shutdown_signaled, dtask, task_channel, result_channel,
                 announce_channel, kpc, klocal, wpc, wsockets, wtask,
                 last_seen_server_id, wresult, hist,
                 clock, last_announce, remaining_interval, poll_entered>>

\* deque.popleft(): the item taken and the deque that remains
popright(q) == [item |-> q[Len(q)], rest |-> SubSeq(q, 1, Len(q) - 1)]
popleft(q) == [item |-> Head(q), rest |-> Tail(q)]

\* task_tuple = self.task_queue.popleft(); IndexError: break
DispatchPop ==
  /\ dpc = "pop"
  /\ IF task_queue = <<>>
     THEN dpc' = "poll" /\ UNCHANGED <<dtask, task_queue>>
     ELSE /\ dtask' = popleft(task_queue).item
          /\ task_queue' = popleft(task_queue).rest
          /\ dpc' = "send"
  /\ UNCHANGED <<spc, acks_read, cpc, apc, bound, ctl, pending_futures,
                 futures, shutdown_signaled, task_channel, result_channel,
                 announce_channel, kpc, klocal, wpc, wsockets, wtask,
                 last_seen_server_id, wresult, hist,
                 clock, last_announce, remaining_interval, poll_entered>>

\* "this will block if no clients are around": a client is around when a
\* worker has its task socket connected
ClientsAround == \E w \in Workers : "task_socket" \in wsockets[w]

\* the PUSH socket accepts a message while fewer than HWM are outstanding
CanSendUnbounded == ClientsAround
CanSend == ClientsAround /\ Len(task_channel) < HWM

\* master_task_socket.send_pyobj(task_tuple)
DispatchSend ==
  /\ dpc = "send"
  /\ CanSend
  /\ task_channel' = Append(task_channel, dtask)
  /\ hist' = [hist EXCEPT !.sent = Append(@, dtask)]
  /\ dtask' = <<>>
  /\ dpc' = "pop"
  /\ UNCHANGED <<spc, acks_read, cpc, apc, bound, ctl, task_queue,
                 pending_futures, futures, shutdown_signaled, result_channel,
                 announce_channel, kpc, klocal, wpc, wsockets, wtask,
                 last_seen_server_id, wresult,
                 clock, last_announce, remaining_interval, poll_entered>>

\* finally: poller.unregister(ctlsocket); master_task_socket.close(linger=0);
\* ctlsocket.close().  With linger=0 a message not yet handed to a worker
\* may or may not still be delivered.
DispatchClose ==
  /\ dpc = "close"
  /\ bound' = bound \ {master_task_endpoint, dispatch_thread_ctl_endpoint}
  /\ ctl' = Drained(ctl, dispatch_thread_ctl_endpoint)
  /\ task_channel' \in {task_channel, <<>>}
  /\ dpc' = "done"
  /\ UNCHANGED <<spc, acks_read, cpc, apc, task_queue, pending_futures,
                 futures, shutdown_signaled, dtask, result_channel,
                 announce_channel, kpc, klocal, wpc, wsockets, wtask,
                 last_seen_server_id, wresult, hist,
                 clock, last_announce, remaining_interval, poll_entered>>

\* ----------------------------------------------------------- _receive_loop
\* bind the result socket, bind the control socket, acknowledge
ReceiveSetup ==
  /\ \/ /\ cpc = "bind_result"
        /\ bound' = bound \cup {master_result_endpoint}
        /\ cpc' = "bind_ctl"
        /\ ctl' = ctl
     \/ /\ cpc = "bind_ctl"
        /\ bound' = bound \cup {receive_thread_ctl_endpoint}
        /\ cpc' = "ack"
        /\ ctl' = ctl
     \/ /\ cpc = "ack"
        /\ ctl' = SignalThread(ctl, startup_ctl_endpoint, "")
        /\ cpc' = "poll"
        /\ bound' = bound
  /\ UNCHANGED <<spc, acks_read, dpc, apc, task_queue, pending_futures,
                 futures, shutdown_signaled, dtask, task_channel, result_channel,
                 announce_channel, kpc, klocal, wpc, wsockets, wtask,
                 last_seen_server_id, wresult, hist,
                 clock, last_announce, remaining_interval, poll_entered>>

\* poller.poll() blocks until the control socket or the result socket is
\* readable; recvall(ctlsocket); if 'shutdown' in messages: return
ReceivePoll ==
  /\ cpc = "poll"
  /\ ctl[receive_thread_ctl_endpoint] # <<>> \/ result_channel # <<>>
  /\ LET messages == recvall(ctl, receive_thread_ctl_endpoint)
     IN /\ ctl' = Drained(ctl, receive_thread_ctl_endpoint)
        /\ cpc' = IF "shutdown" \in Range(messages) THEN "close"
                  ELSE IF result_channel # <<>> THEN "recv" ELSE "poll"
  /\ UNCHANGED <<spc, acks_read, dpc, apc, bound, task_queue, pending_futures,
                 futures, shutdown_signaled, dtask, task_channel, result_channel,
                 announce_channel, kpc, klocal, wpc, wsockets, wtask,
                 last_seen_server_id, wresult, hist,
                 clock, last_announce, remaining_interval, poll_entered>>

\* The else branch of the unpacking of a received result.  The test
\* "if instance_id != self.instance_id" only logs: control continues with the
\* pop whatever the instance_id is.  The registry after
\* self.pending_futures.pop(task_id):
RegistryAfter(reg, msg) ==
  IF Len(msg) # ResultArity THEN reg
  ELSE IF msg[2] \in DOMAIN reg THEN DictPop(reg, msg[2]) ELSE reg

\* ... and the futures after ft._set_result(payload) / ft._set_exception(*payload)
FuturesAfter(fts, reg, msg) ==
  IF Len(msg) # ResultArity THEN fts
  ELSE IF msg[2] \notin DOMAIN reg THEN fts
  ELSE LET ft == reg[msg[2]]
       IN IF msg[3] = "result"
          THEN [fts EXCEPT ![ft] = set_result(@, msg[4])]
          ELSE IF msg[3] = "exception"
          THEN [fts EXCEPT ![ft] = set_exception(@, msg[4])]
          ELSE fts

\* recv_pyobj() returns whatever object the client pickled.  A tuple is
\* modelled as the sequence of its items; an object that is not iterable (an
\* int) as the one-item sequence NonIterable.
NonIterable == <<"int">>

\* (instance_id, task_id, result_type, payload) = ...recv_pyobj(): the
\* exception the unpacking raises, "" when it raises none
UnpackError(obj) ==
  IF Len(obj) = 1 /\ obj[1] = "int" THEN "TypeError"
  ELSE IF Len(obj) # ResultArity THEN "ValueError"
  ELSE ""

\* except ValueError: the only exception of the unpacking the loop handles;
\* any other one leaves the while loop through the finally clause
Propagates(e) == e \notin {"", "ValueError"}

\* master_result_socket.recv_pyobj() and the handling of what it returns
ReceiveResult ==
  /\ cpc = "recv"
  /\ LET msg == Head(result_channel)
     IN /\ result_channel' = Tail(result_channel)
        /\ pending_futures' = RegistryAfter(pending_futures, msg)
        /\ futures' = FuturesAfter(futures, pending_futures, msg)
        /\ hist' = [hist EXCEPT !.popped =
                      @ \cup ((DOMAIN pending_futures) \ (DOMAIN pending_futures'))]
        /\ cpc' = IF Propagates(UnpackError(msg)) THEN "close" ELSE "poll"
  /\ UNCHANGED <<spc, acks_read, dpc, apc, bound, ctl, task_queue,
                 shutdown_signaled, dtask, task_channel,
                 announce_channel, kpc, klocal, wpc, wsockets, wtask,
                 last_seen_server_id, wresult,
                 clock, last_announce, remaining_interval, poll_entered>>

\* finally: unregister both sockets; master_result_socket.close(linger=0);
\* ctlsocket.close()
ReceiveClose ==
  /\ cpc = "close"
  /\ bound' = bound \ {master_result_endpoint, receive_thread_ctl_endpoint}
  /\ ctl' = Drained(ctl, receive_thread_ctl_endpoint)
  /\ cpc' = "done"
  /\ UNCHANGED <<spc, acks_read, dpc, apc, task_queue, pending_futures,
                 futures, shutdown_signaled, dtask, task_channel, result_channel,
                 announce_channel, kpc, klocal, wpc, wsockets, wtask,
                 last_seen_server_id, wresult, hist,
                 clock, last_announce, remaining_interval, poll_entered>>

\* ---------------------------------------------------------- _announce_loop
\* bind the announce socket, bind the control socket, acknowledge; then
\* last_announce = 0, remaining_interval = self.server_heartbeat_interval and
\* the first poller.poll
AnnounceSetup ==
  /\ \/ /\ apc = "bind_announce"
        /\ bound' = bound \cup {master_announce_endpoint}
        /\ apc' = "bind_ctl"
        /\ UNCHANGED <<ctl, last_announce, remaining_interval, poll_entered>>
     \/ /\ apc = "bind_ctl"
        /\ bound' = bound \cup {announce_endpoint}
        /\ apc' = "ack"
        /\ UNCHANGED <<ctl, last_announce, remaining_interval, poll_entered>>
     \/ /\ apc = "ack"
        /\ ctl' = SignalThread(ctl, startup_ctl_endpoint, "")
        /\ last_announce' = 0
        /\ remaining_interval' = server_heartbeat_interval
        /\ poll_entered' = clock
        /\ apc' = "poll"
        /\ bound' = bound
  /\ UNCHANGED <<spc, acks_read, dpc, cpc, task_queue, pending_futures,
                 futures, shutdown_signaled, dtask, task_channel, result_channel,
                 announce_channel, kpc, klocal, wpc, wsockets, wtask,
                 last_seen_server_id, wresult, clock, hist>>

\* now = time.time()
\* if now - last_announce < self.server_heartbeat_interval:
\*     remaining_interval = now - last_announce
\* else:
\*     remaining_interval = self.server_heartbeat_interval
RemainingInterval(now, last) ==
  IF now - last < server_heartbeat_interval THEN now - last
  ELSE server_heartbeat_interval

\* the messages of a batch that come before its first 'shutdown'
RECURSIVE BeforeShutdown(_)
BeforeShutdown(messages) ==
  IF messages = <<>> \/ Head(messages) = "shutdown" THEN <<>>
  ELSE <<Head(messages)>> \o BeforeShutdown(Tail(messages))

\* where _announce_loop goes after master_announce_socket.send('shutdown'):
\* return, that is the finally clause
KeepsPolling == "poll"
AfterShutdownSent == "close"

\* poll_results.get(ctlsocket) == zmq.POLLIN: recvall; 'shutdown' is
\* broadcast and ends the loop, otherwise every message is forwarded and the
\* next wait is computed
AnnounceControl ==
  /\ apc = "poll"
  /\ ctl[announce_endpoint] # <<>>
  /\ LET messages == recvall(ctl, announce_endpoint)
     IN /\ ctl' = Drained(ctl, announce_endpoint)
        /\ hist' = [hist EXCEPT !.relay_read = @ \o BeforeShutdown(messages)]
        /\ IF "shutdown" \in Range(messages)
           THEN /\ announce_channel' = Append(announce_channel, "shutdown")
                /\ apc' = AfterShutdownSent
                /\ UNCHANGED <<remaining_interval, poll_entered>>
           ELSE /\ announce_channel' = announce_channel \o messages
                /\ remaining_interval' = RemainingInterval(clock, last_announce)
                /\ poll_entered' = clock
                /\ apc' = "poll"
  /\ UNCHANGED <<spc, acks_read, dpc, cpc, bound, task_queue, pending_futures,
                 futures, shutdown_signaled, dtask, task_channel, result_channel,
                 kpc, klocal, wpc, wsockets, wtask,
                 last_seen_server_id, wresult, clock, last_announce>>

\* poller.poll(remaining_interval*1000) returns nothing once
\* remaining_interval has passed with no control message
TimedOut == clock >= poll_entered + remaining_interval

\* the poll timed out: last_announce = time.time();
\* master_announce_socket.send('ping'); then the next wait is computed
AnnouncePing ==
  /\ apc = "poll"
  /\ ctl[announce_endpoint] = <<>>
  /\ TimedOut
  /\ hist.pings < MaxPings
  /\ last_announce' = clock
  /\ announce_channel' = Append(announce_channel, "ping")
  /\ remaining_interval' = RemainingInterval(clock, last_announce')
  /\ poll_entered' = clock
  /\ hist' = Bump("pings")
  /\ UNCHANGED <<spc, acks_read, dpc, cpc, apc, bound, ctl, task_queue,
                 pending_futures, futures, shutdown_signaled, dtask, task_channel,
                 result_channel, kpc, klocal, wpc, wsockets, wtask,
                 last_seen_server_id, wresult, clock>>

\* finally: poller.unregister(ctlsocket); master_announce_socket.close(linger=0);
\* ctlsocket.close()
AnnounceClose ==
  /\ apc = "close"
  /\ bound' = bound \ {master_announce_endpoint, announce_endpoint}
  /\ ctl' = Drained(ctl, announce_endpoint)
  /\ apc' = "done"
  /\ UNCHANGED <<spc, acks_read, dpc, cpc, task_queue, pending_futures,
                 futures, shutdown_signaled, dtask, task_channel, result_channel,
                 announce_channel, kpc, klocal, wpc, wsockets, wtask,
                 last_seen_server_id, wresult, hist,
                 clock, last_announce, remaining_interval, poll_entered>>

\* the control messages, other than 'shutdown', the announce loop is asked
\* to relay: the k-th request carries the k-th text
RelayMessages == <<"relay_1", "relay_2", "relay_3", "relay_4">>

\* self._signal_thread(self._announce_endpoint, message) by a thread of the
\* coordinator process
AnnounceRequest ==
  /\ spc = "returned"
  /\ hist.relays < MaxRelays /\ hist.relays < Len(RelayMessages)
  /\ ctl' = SignalThread(ctl, announce_endpoint, RelayMessages[hist.relays + 1])
  /\ hist' = Bump("relays")
  /\ UNCHANGED <<spc, acks_read, dpc, cpc, apc, bound, task_queue,
                 pending_futures, futures, shutdown_signaled, dtask, task_channel,
                 result_channel, announce_channel, kpc, klocal, wpc, wsockets,
                 wtask, last_seen_server_id, wresult,
                 clock, last_announce, remaining_interval, poll_entered>>

\* time passes.  Only _announce_loop reads the clock, at the end of a poll,
\* so time is let pass only while the loop waits in its poll.
Tick ==
  /\ apc = "poll"
  /\ hist.ticks < MaxTicks
  /\ clock' = clock + 1
  /\ hist' = Bump("ticks")
  /\ UNCHANGED <<spc, acks_read, dpc, cpc, apc, bound, ctl, task_queue,
                 pending_futures, futures, shutdown_signaled, dtask, task_channel,
                 result_channel, announce_channel, kpc, klocal, wpc, wsockets,
                 wtask, last_seen_server_id, wresult,
                 last_announce, remaining_interval, poll_entered>>

\* ------------------------------------------------- submit() / submit_many()
NoLocals == [ft |-> 0, fn |-> "", args |-> <<>>, i |-> 0]

\* The caller threads run the same code, so which idle thread makes the next
\* call does not matter: the lowest-numbered idle thread makes it.
TakesCall(c) == kpc[c] = "idle" /\ \A d \in Callers : d < c => kpc[d] # "idle"

\* the order of the statements of _make_append_task: after ft = WMFuture()
\* ("make") comes self.pending_futures[task_id] = ft ("register"), then
\* self.task_queue.append(task_tuple) ("append"), then the caller's signal
AppendsFirst(step) ==
  IF step = "make" THEN "append" ELSE IF step = "append" THEN "register" ELSE "signal"
StepAfter(step) ==
  IF step = "make" THEN "register" ELSE IF step = "register" THEN "append" ELSE "signal"

\* ft = WMFuture(); task_id = ft.task_id     (first line of _make_append_task)
\* entered from submit() or submit_many() by an idle thread, or for the next
\* task of a submit_many() call whose previous task has been appended
MakeFuture(c) ==
  /\ spc = "returned"
  /\ hist.submits < MaxTasks
  /\ TakesCall(c) \/ kpc[c] = "signal"
  /\ \E input \in TaskInputs :
       /\ futures' = Append(futures, WMFuture(futures))
       /\ klocal' = [klocal EXCEPT ![c] =
                       [ft |-> Len(futures) + 1,
                        fn |-> input[1], args |-> input[2], i |-> 0]]
       /\ hist' = [hist EXCEPT !.submits = @ + 1, !.submitted = Append(@, input)]
  /\ kpc' = [kpc EXCEPT ![c] = StepAfter("make")]
  /\ UNCHANGED <<spc, acks_read, dpc, cpc, apc, bound, ctl, task_queue,
                 pending_futures, shutdown_signaled, dtask, task_channel,
                 result_channel, announce_channel, wpc, wsockets, wtask,
                 last_seen_server_id, wresult,
                 clock, last_announce, remaining_interval, poll_entered>>

\* task_tuple = (self.instance_id, task_id, fn, args, kwargs)
TaskTuple(c) ==
  <<instance_id, futures[klocal[c].ft].task_id, klocal[c].fn, klocal[c].args, <<>>>>

\* self.pending_futures[task_id] = ft
RegisterFuture(c) ==
  /\ kpc[c] = "register"
  /\ pending_futures' =
       DictSet(pending_futures, futures[klocal[c].ft].task_id, klocal[c].ft)
  /\ kpc' = [kpc EXCEPT ![c] = StepAfter("register")]
  /\ UNCHANGED <<spc, acks_read, dpc, cpc, apc, bound, ctl, task_queue,
                 futures, shutdown_signaled, dtask, task_channel,
                 result_channel, announce_channel, klocal, wpc, wsockets, wtask,
                 last_seen_server_id, wresult, hist,
                 clock, last_announce, remaining_interval, poll_entered>>

\* self.task_queue.append(task_tuple); return ft
AppendTask(c) ==
  /\ kpc[c] = "append"
  /\ task_queue' = Append(task_queue, TaskTuple(c))
  /\ hist' = [hist EXCEPT !.appended = Append(@, TaskTuple(c))]
  /\ kpc' = [kpc EXCEPT ![c] = StepAfter("append")]
  /\ UNCHANGED <<spc, acks_read, dpc, cpc, apc, bound, ctl, pending_futures,
                 futures, shutdown_signaled, dtask, task_channel,
                 result_channel, announce_channel, klocal, wpc, wsockets, wtask,
                 last_seen_server_id, wresult,
                 clock, last_announce, remaining_interval, poll_entered>>

\* self._signal_thread(self._dispatch_thread_ctl_endpoint); return
SignalDispatch(c) ==
  /\ kpc[c] = "signal"
  /\ ctl' = SignalThread(ctl, dispatch_thread_ctl_endpoint, "")
  /\ hist' = [hist EXCEPT !.unbound_signal =
                 @ \/ dispatch_thread_ctl_endpoint \notin bound]
  /\ kpc' = [kpc EXCEPT ![c] = "idle"]
  /\ klocal' = [klocal EXCEPT ![c] = NoLocals]
  /\ UNCHANGED <<spc, acks_read, dpc, cpc, apc, bound, task_queue,
                 pending_futures, futures, shutdown_signaled, dtask, task_channel,
                 result_channel, announce_channel, wpc, wsockets, wtask,
                 last_seen_server_id, wresult,
                 clock, last_announce, remaining_interval, poll_entered>>

\* self._signal_thread(self._dispatch_thread_ctl_endpoint) whose message
\* does not reach the dispatcher's control socket; return
SignalDispatchLost(c) ==
  /\ kpc[c] = "signal"
  /\ kpc' = [kpc EXCEPT ![c] = "idle"]
  /\ klocal' = [klocal EXCEPT ![c] = NoLocals]
  /\ UNCHANGED <<spc, acks_read, dpc, cpc, apc, bound, ctl, task_queue,
                 pending_futures, futures, shutdown_signaled, dtask, task_channel,
                 result_channel, announce_channel, wpc, wsockets, wtask,
                 last_seen_server_id, wresult, hist,
                 clock, last_announce, remaining_interval, poll_entered>>

\* ---------------------------------------------------------------- shutdown()
\* the guard of shutdown(): not self._shutdown_signaled
AlwaysSignals(flag) == TRUE
MustSignal(flag) == ~flag

\* if not self._shutdown_signaled:
ShutdownTest(c) ==
  /\ TakesCall(c)
  /\ spc = "returned"
  /\ hist.sdcalls < MaxShutdownCalls
  /\ IF MustSignal(shutdown_signaled)
     THEN /\ kpc' = [kpc EXCEPT ![c] = "sd_set"]
          /\ hist' = [hist EXCEPT !.sdcalls = @ + 1, !.sdactive = @ + 1,
                                  !.overlap = @ \/ hist.sdactive > 0]
     ELSE /\ kpc' = kpc
          /\ hist' = [hist EXCEPT !.sdcalls = @ + 1, !.sddone = @ + 1,
                                  !.overlap = @ \/ hist.sdactive > 0]
  /\ UNCHANGED <<spc, acks_read, dpc, cpc, apc, bound, ctl, task_queue,
                 pending_futures, futures, shutdown_signaled, dtask, task_channel,
                 result_channel, announce_channel, klocal, wpc, wsockets, wtask,
                 last_seen_server_id, wresult,
                 clock, last_announce, remaining_interval, poll_entered>>

\* self._shutdown_signaled = True
ShutdownSet(c) ==
  /\ kpc[c] = "sd_set"
  /\ shutdown_signaled' = TRUE
  /\ kpc' = [kpc EXCEPT ![c] = "sd_signal"]
  /\ klocal' = [klocal EXCEPT ![c].i = 1]
  /\ UNCHANGED <<spc, acks_read, dpc, cpc, apc, bound, ctl, task_queue,
                 pending_futures, futures, dtask, task_channel,
                 result_channel, announce_channel, wpc, wsockets, wtask,
                 last_seen_server_id, wresult, hist,
                 clock, last_announce, remaining_interval, poll_entered>>

\* for endpoint in (dispatch, receive, announce):
\*     self._signal_thread(endpoint, 'shutdown')
ShutdownSignal(c) ==
  /\ kpc[c] = "sd_signal"
  /\ LET i == klocal[c].i
         endpoint == LoopCtlEndpoints[i]
         last == i = Len(LoopCtlEndpoints)
     IN /\ ctl' = SignalThread(ctl, endpoint, "shutdown")
        /\ hist' = [hist EXCEPT
                      !.shutdown_sent[endpoint] = IF endpoint \in bound THEN @ + 1 ELSE @,
                      !.unbound_signal = @ \/ endpoint \notin bound,
                      !.sddone = IF last THEN @ + 1 ELSE @,
                      !.sdactive = IF last THEN @ - 1 ELSE @]
        /\ kpc' = [kpc EXCEPT ![c] = IF last THEN "idle" ELSE "sd_signal"]
        /\ klocal' = [klocal EXCEPT ![c] = IF last THEN NoLocals ELSE [@ EXCEPT !.i = i + 1]]
  /\ UNCHANGED <<spc, acks_read, dpc, cpc, apc, bound, task_queue,
                 pending_futures, futures, shutdown_signaled, dtask, task_channel,
                 result_channel, announce_channel, wpc, wsockets, wtask,
                 last_seen_server_id, wresult,
                 clock, last_announce, remaining_interval, poll_entered>>

\* ------------------------------------------------------- ZMQWMProcess.run()
\* task_socket.connect(...); result_socket.connect(...)
WorkerConnect(w) ==
  /\ wpc[w] = "start"
  /\ wsockets' = [wsockets EXCEPT ![w] = {"task_socket", "result_socket"}]
  /\ wpc' = [wpc EXCEPT ![w] = "recv"]
  /\ UNCHANGED <<spc, acks_read, dpc, cpc, apc, bound, ctl, task_queue,
                 pending_futures, futures, shutdown_signaled, dtask, task_channel,
                 result_channel, announce_channel, kpc, klocal, wtask,
                 last_seen_server_id, wresult, hist,
                 clock, last_announce, remaining_interval, poll_entered>>

\* task_tuple = task_socket.recv_pyobj(): a task our dispatcher sent
WorkerRecv(w) ==
  /\ wpc[w] = "recv"
  /\ task_channel # <<>>
  /\ wtask' = [wtask EXCEPT ![w] = Head(task_channel)]
  /\ task_channel' = Tail(task_channel)
  /\ wpc' = [wpc EXCEPT ![w] = "run"]
  /\ UNCHANGED <<spc, acks_read, dpc, cpc, apc, bound, ctl, task_queue,
                 pending_futures, futures, shutdown_signaled, dtask,
                 result_channel, announce_channel, kpc, klocal, wsockets,
                 last_seen_server_id, wresult, hist,
                 clock, last_announce, remaining_interval, poll_entered>>

\* what a server bound to the task endpoint may push to a worker: a task of
\* one or another instance, a tuple that is too short, a tuple that is too long
ForeignTasks ==
  { <<s[1], s[2], in[1], in[2], <<>>>> :
      s \in {instance_id, OtherInstance} \X (1..MaxTasks), in \in TaskInputs }
  \cup { <<instance_id, 1, "add">> }
  \cup { <<instance_id, 1, "add", <<2, 3>>, <<>>, "extra">> }

\* task_tuple = task_socket.recv_pyobj(): a task somebody else sent
WorkerRecvForeign(w) ==
  /\ wpc[w] = "recv"
  /\ hist.ztasks < MaxZombieTasks
  /\ \E t \in ForeignTasks : wtask' = [wtask EXCEPT ![w] = t]
  /\ wpc' = [wpc EXCEPT ![w] = "run"]
  /\ hist' = Bump("ztasks")
  /\ UNCHANGED <<spc, acks_read, dpc, cpc, apc, bound, ctl, task_queue,
                 pending_futures, futures, shutdown_signaled, dtask, task_channel,
                 result_channel, announce_channel, kpc, klocal, wsockets,
                 last_seen_server_id, wresult,
                 clock, last_announce, remaining_interval, poll_entered>>

\* task_tuple[:5]
FirstFive(t) == SubSeq(t, 1, IF Len(t) < TaskArity THEN Len(t) ELSE TaskArity)

\* server_id, task_id, fn, args, kwargs = task_tuple[:5] raises ValueError
Malformed(t) == Len(FirstFive(t)) # TaskArity

\* elif last_seen_server_id != server_id: raise ValueError(...)
ZombieServerUnchecked(last, t) == FALSE
ZombieServer(last, t) == last # "None" /\ last # t[1]

\* result_tuple = (server_id, task_id, 'exception', (e, traceback.format_exc()))
\* or             (server_id, task_id, 'result', result)
ResultTupleAlwaysResult(t) ==
  <<t[1], t[2], "result", PyValue(Call(t[3], t[4]).val)>>
ResultTuple(t) ==
  LET r == Call(t[3], t[4])
  IN IF r.kind = "raise"
     THEN <<t[1], t[2], "exception", PyExcInfo(r.exc, format_exc(r.exc))>>
     ELSE <<t[1], t[2], "result", PyValue(r.val)>>

\* the sockets a worker still has open after the finally clause has run
AfterFinally == {}

\* unpack the task, check the server id, call the function
WorkerRun(w) ==
  /\ wpc[w] = "run"
  /\ LET t == FirstFive(wtask[w])
     IN IF Malformed(wtask[w])
        THEN /\ wpc' = [wpc EXCEPT ![w] = "recv"]
             /\ UNCHANGED <<last_seen_server_id, wresult, wsockets, hist>>
        ELSE IF ZombieServer(last_seen_server_id[w], t)
        THEN /\ wpc' = [wpc EXCEPT ![w] = "done"]
             /\ wsockets' = [wsockets EXCEPT ![w] = AfterFinally]
             /\ UNCHANGED <<last_seen_server_id, wresult, hist>>
        ELSE /\ last_seen_server_id' = [last_seen_server_id EXCEPT ![w] = t[1]]
             /\ wresult' = [wresult EXCEPT ![w] = ResultTuple(t)]
             /\ hist' = Bump("invoked")
             /\ wpc' = [wpc EXCEPT ![w] = "send"]
             /\ UNCHANGED wsockets
  /\ wtask' = [wtask EXCEPT ![w] = <<>>]
  /\ UNCHANGED <<spc, acks_read, dpc, cpc, apc, bound, ctl, task_queue,
                 pending_futures, futures, shutdown_signaled, dtask, task_channel,
                 result_channel, announce_channel, kpc, klocal,
                 clock, last_announce, remaining_interval, poll_entered>>

\* result_socket.send_pyobj(result_tuple)
WorkerSend(w) ==
  /\ wpc[w] = "send"
  /\ result_channel' = Append(result_channel, wresult[w])
  /\ wresult' = [wresult EXCEPT ![w] = <<>>]
  /\ wpc' = [wpc EXCEPT ![w] = "recv"]
  /\ UNCHANGED <<spc, acks_read, dpc, cpc, apc, bound, ctl, task_queue,
                 pending_futures, futures, shutdown_signaled, dtask, task_channel,
                 announce_channel, kpc, klocal, wsockets, wtask,
                 last_seen_server_id, hist,
                 clock, last_announce, remaining_interval, poll_entered>>

\* ------------------------------------------------- other clients' results
\* what a client that is not one of our workers may push to the result
\* socket: a result of another instance (a zombie client), a result of an
\* unknown type (an incompatible client), a tuple of the wrong length, an
\* object that is not a tuple
ZombiePayload(type) ==
  IF type = "exception" THEN PyExcInfo("KeyError", format_exc("KeyError"))
  ELSE PyValue(7)

ForeignResults ==
  { <<OtherInstance, 1, type, ZombiePayload(type)>> :
       type \in {"result", "exception", "bogus"} }
  \cup { <<instance_id, 1, "bogus", PyValue(7)>> }
  \cup { <<instance_id, 1, "result">> }
  \cup { NonIterable }

ForeignResult ==
  /\ master_result_endpoint \in bound
  /\ hist.zres < MaxZombieResults
  /\ \E m \in ForeignResults : result_channel' = Append(result_channel, m)
  /\ hist' = Bump("zres")
  /\ UNCHANGED <<spc, acks_read, dpc, cpc, apc, bound, ctl, task_queue,
                 pending_futures, futures, shutdown_signaled, dtask, task_channel,
                 announce_channel, kpc, klocal, wpc, wsockets, wtask,
                 last_seen_server_id, wresult,
                 clock, last_announce, remaining_interval, poll_entered>>

\* ------------------------------------------------------------ specification
Startup == StartupBind \/ StartupStartThreads \/ StartupRecv \/ StartupClose
Dispatcher == DispatchSetup \/ DispatchPoll \/ DispatchPop \/ DispatchSend \/ DispatchClose
Collector == ReceiveSetup \/ ReceivePoll \/ ReceiveResult \/ ReceiveClose
Announcer == AnnounceSetup \/ AnnounceControl \/ AnnouncePing \/ AnnounceClose
Submit(c) == MakeFuture(c) \/ RegisterFuture(c) \/ AppendTask(c) \/ SignalDispatch(c)
Shutdown(c) == ShutdownTest(c) \/ ShutdownSet(c) \/ ShutdownSignal(c)
OwnWorker(w) == WorkerConnect(w) \/ WorkerRecv(w) \/ WorkerRun(w) \/ WorkerSend(w)

\* The whole system.
Next ==
  \/ Startup \/ Dispatcher \/ Collector \/ Announcer
  \/ \E c \in Callers : Submit(c) \/ Shutdown(c)
  \/ \E w \in Workers : OwnWorker(w) \/ WorkerRecvForeign(w)
  \/ ForeignResult \/ AnnounceRequest \/ Tick

Spec == Init /\ [][Next]_vars

\* The specifications below are the whole system with part of its
\* environment left out, so that each can be explored exhaustively.

\* the loops of a coordinator that nobody shuts down
DispatcherRuns == DispatchSetup \/ DispatchPoll \/ DispatchPop \/ DispatchSend
CollectorRuns == ReceiveSetup \/ ReceivePoll \/ ReceiveResult

\* The coordinator's life cycle: startup, the three loops, callers that
\* submit and shut down, and workers that connect but are not ready to take
\* a task.
NextLifecycle ==
  \/ Startup \/ Dispatcher
  \/ ReceiveSetup \/ ReceivePoll \/ ReceiveClose
  \/ AnnounceSetup \/ AnnounceControl \/ AnnounceClose
  \/ \E c \in Callers : Submit(c) \/ Shutdown(c)
  \/ \E w \in Workers : WorkerConnect(w)

SpecLifecycle == Init /\ [][NextLifecycle]_vars

\* Startup and submission with no worker ready: callers submit, workers
\* connect but never take a task, nobody shuts down.
NextSubmit ==
  \/ Startup \/ DispatcherRuns \/ ReceiveSetup \/ AnnounceSetup
  \/ \E c \in Callers : Submit(c)
  \/ \E w \in Workers : WorkerConnect(w)

SpecSubmit == Init /\ [][NextSubmit]_vars

\* Startup and shutdown: callers only shut down.
NextShutdown ==
  \/ Startup
  \/ DispatchSetup \/ DispatchPoll \/ DispatchPop \/ DispatchClose
  \/ ReceiveSetup \/ ReceivePoll \/ ReceiveClose
  \/ AnnounceSetup \/ AnnounceControl \/ AnnounceClose
  \/ \E c \in Callers : Shutdown(c)

SpecShutdown == Init /\ [][NextShutdown]_vars

\* The data path: submissions, dispatch, our own workers, collection.
NextPipeline ==
  \/ Startup \/ DispatcherRuns \/ CollectorRuns \/ AnnounceSetup
  \/ \E c \in Callers : Submit(c)
  \/ \E w \in Workers : OwnWorker(w)

SpecPipeline == Init /\ [][NextPipeline]_vars

\* The data path together with the results other clients push to the
\* result socket.
NextCollect == NextPipeline \/ ForeignResult

SpecCollect == Init /\ [][NextCollect]_vars

\* The announce loop: startup, requests to relay a message, time passing,
\* callers that shut down.
NextAnnounce ==
  \/ Startup \/ DispatchSetup \/ ReceiveSetup \/ Announcer
  \/ AnnounceRequest \/ Tick
  \/ \E c \in Callers : Shutdown(c)

SpecAnnounce == Init /\ [][NextAnnounce]_vars

\* The worker loop on its own, fed with every sequence of task messages.
NextWorker ==
  \E w \in Workers :
    WorkerConnect(w) \/ WorkerRecvForeign(w) \/ WorkerRun(w) \/ WorkerSend(w)

SpecWorker == Init /\ [][NextWorker]_vars

\* Dispatch with no wake-up: the signal of submit() never reaches the
\* dispatcher, workers take tasks, nobody shuts down.
SubmitUnheard(c) ==
  MakeFuture(c) \/ RegisterFuture(c) \/ AppendTask(c) \/ SignalDispatchLost(c)

NextUnheard ==
  \/ Startup \/ DispatcherRuns \/ ReceiveSetup \/ AnnounceSetup
  \/ \E c \in Callers : SubmitUnheard(c)
  \/ \E w \in Workers : OwnWorker(w)

SpecUnheard == Init /\ [][NextUnheard]_vars

\* The threads of the coordinator process are scheduled fairly: a loop that
\* can take its next step takes it, and a call that is under way goes on.
\* Workers are other processes; nothing says one ever runs.
CallGoesOn(c) ==
  RegisterFuture(c) \/ AppendTask(c) \/ SignalDispatch(c)
  \/ ShutdownSet(c) \/ ShutdownSignal(c)

FairLifecycle ==
  /\ SpecLifecycle
  /\ WF_vars(Startup)
  /\ WF_vars(Dispatcher)
  /\ WF_vars(ReceiveSetup \/ ReceivePoll \/ ReceiveClose)
  /\ WF_vars(AnnounceSetup \/ AnnounceControl \/ AnnounceClose)
  /\ \A c \in Callers : WF_vars(CallGoesOn(c))

\* ------------------------------------------------------------------ claims
IsPrefix(a, b) == Len(a) <= Len(b) /\ SubSeq(b, 1, Len(a)) = a
Resolved(ft) == ft.state \in {"fulfilled", "failed"}
AllIdle == \A c \in Callers : kpc[c] = "idle"
LoopsRunning(pcs) == pcs \subseteq {"poll", "pop", "send", "recv", "close", "done"}

\* a step of _receive_loop that receives and handles a result message
Collects == cpc = "recv" /\ cpc' = "poll"
WellFormed(msg) == Len(msg) = ResultArity

\* C1: a result message with another instance_id, when the Collector
\* receives it, leaves the registry and every future as they were.
C1_IdentityIsolation ==
  [][Collects =>
       LET msg == Head(result_channel)
       IN (WellFormed(msg) /\ msg[1] # instance_id)
            => (pending_futures' = pending_futures /\ futures' = futures)]_vars

\* C2: once startup() has returned, each of the three loops has bound its
\* public and its control endpoint and has sent its acknowledgment, and no
\* submit has signalled an endpoint that is not bound.
C2_StartupOrdering ==
  spc = "returned" =>
    /\ LoopsRunning({dpc, cpc, apc})
    /\ acks_read = NumLoops
    /\ {master_task_endpoint, master_result_endpoint, master_announce_endpoint,
        dispatch_thread_ctl_endpoint, receive_thread_ctl_endpoint,
        announce_endpoint} \subseteq bound
    /\ ~hist.unbound_signal

\* a submit() made after startup() has signalled the dispatcher
C2_Witness ==
  /\ spc = "returned"
  /\ Len(hist.appended) > 0 /\ AllIdle
  /\ ctl[dispatch_thread_ctl_endpoint] # <<>>

\* C3: once shutdown() has set its flag, all three loops end.
C3_ShutdownLiveness ==
  shutdown_signaled ~> (dpc = "done" /\ cpc = "done" /\ apc = "done")

\* C4: when the Collector receives a result message of our instance, of
\* type 'result' or 'exception', for the task_id of a future that submit
\* created, that future is fulfilled or failed afterwards.
C4_EventualResolution ==
  [][Collects =>
       LET msg == Head(result_channel)
       IN (WellFormed(msg) /\ msg[1] = instance_id /\ msg[3] \in {"result", "exception"})
            => \A f \in DOMAIN futures :
                 futures[f].task_id = msg[2] => Resolved(futures'[f])]_vars

\* the outcome of the task function for the task future f was created for
Outcome(f) == Call(hist.submitted[f][1], hist.submitted[f][2])

\* C5: a fulfilled future holds the value its task function returned, a
\* failed future the exception it raised and a trace text.
C5_OutcomeRoundTrip ==
  \A f \in DOMAIN futures :
    /\ futures[f].state = "fulfilled" =>
         Outcome(f).kind = "return" /\ futures[f].result = PyValue(Outcome(f).val)
    /\ futures[f].state = "failed" =>
         /\ Outcome(f).kind = "raise"
         /\ futures[f].exception = Outcome(f).exc
         /\ futures[f].traceback # ""

\* a worker step that handles a well-formed task whose instance_id is not
\* the one the worker has remembered
SeesOtherServer(w) ==
  /\ wpc[w] = "run" /\ wpc'[w] # "run"
  /\ ~Malformed(wtask[w])
  /\ last_seen_server_id[w] # "None"
  /\ FirstFive(wtask[w])[1] # last_seen_server_id[w]

\* C6: on a task with an instance_id other than the remembered one the
\* worker ends: it does not call the function, sends no result, closes both
\* sockets, and takes no further step.
C6_ZombieDetection ==
  [][\A w \in Workers :
       /\ SeesOtherServer(w) =>
            /\ wpc'[w] = "done"
            /\ wsockets'[w] = {}
            /\ hist'.invoked = hist.invoked
            /\ wresult'[w] = wresult[w]
            /\ result_channel' = result_channel
       /\ wpc[w] = "done" => wpc'[w] = "done" /\ wsockets'[w] = {}]_vars

\* a worker that ran one task of the instance it remembered, and sent its
\* result, has ended on a task of another instance
C6_Witness ==
  \E w \in Workers :
    /\ wpc[w] = "done" /\ wsockets[w] = {}
    /\ last_seen_server_id[w] # "None"
    /\ hist.invoked = 1 /\ Len(result_channel) = 1

\* C7: the task messages sent on the task socket are, in order, the first
\* of the task messages appended to the task queue.
C7_FifoDispatch == IsPrefix(hist.sent, hist.appended)

\* two tasks have been sent, the second one appended by a call that
\* overlapped the first one's
C7_Witness ==
  /\ Len(hist.sent) >= 2
  /\ hist.sent[1][2] > hist.sent[2][2]

\* C8: the task socket never holds more than HWM messages; a submit that is
\* under way can always take its next step; a send with the buffer full or
\* no client around cannot be taken.
C8_Backpressure ==
  /\ Len(task_channel) <= HWM
  /\ \A c \in Callers :
       /\ kpc[c] = "register" => ENABLED RegisterFuture(c)
       /\ kpc[c] = "append" => ENABLED AppendTask(c)
       /\ kpc[c] = "signal" => ENABLED SignalDispatch(c)
  /\ (dpc = "send" /\ (Len(task_channel) >= HWM \/ ~ClientsAround))
       => ~ENABLED DispatchSend

\* the buffer is full, the dispatcher is stalled in its send, and every
\* submit has returned
C8_Witness ==
  /\ dpc = "send" /\ Len(task_channel) = HWM /\ dtask # <<>>
  /\ AllIdle /\ Len(hist.appended) >= 2

\* the futures whose registration (self.pending_futures[task_id] = ft) is done
Registered ==
  {f \in DOMAIN futures : \A c \in Callers : ~(kpc[c] = "register" /\ klocal[c].ft = f)}

\* C9: futures have distinct task_ids; a registered future is in the
\* registry under its task_id unless the Collector has taken it out; when
\* no call is under way the queue has received one task message per future;
\* no future is resolved more than once.
C9_Uniqueness ==
  /\ \A f, g \in DOMAIN futures : f # g => futures[f].task_id # futures[g].task_id
  /\ \A f \in Registered :
       \/ futures[f].task_id \in hist.popped
       \/ /\ futures[f].task_id \in DOMAIN pending_futures
          /\ pending_futures[futures[f].task_id] = f
  /\ AllIdle =>
       /\ Len(hist.appended) = Len(futures)
       /\ {t[2] : t \in Range(hist.appended)} = {futures[f].task_id : f \in DOMAIN futures}
  /\ \A f \in DOMAIN futures : futures[f].nsets <= 1

\* two submits overlapped (the later future was queued first) and both
\* futures have been resolved
C9_Witness ==
  /\ Len(hist.appended) >= 2 /\ hist.appended[1][2] > hist.appended[2][2]
  /\ \A f \in DOMAIN futures : futures[f].nsets = 1

\* C10: when shutdown() calls that did not overlap in time have returned,
\* each loop's control endpoint has received exactly one 'shutdown'.
C10_ShutdownIdempotence ==
  ~hist.overlap =>
    /\ \A i \in DOMAIN LoopCtlEndpoints : hist.shutdown_sent[LoopCtlEndpoints[i]] <= 1
    /\ (hist.sddone >= 1 /\ hist.sdactive = 0) =>
         \A i \in DOMAIN LoopCtlEndpoints : hist.shutdown_sent[LoopCtlEndpoints[i]] = 1

\* two shutdown() calls, one after the other, have returned
C10_Witness ==
  /\ ~hist.overlap /\ hist.sddone >= 2
  /\ \A i \in DOMAIN LoopCtlEndpoints : hist.shutdown_sent[LoopCtlEndpoints[i]] = 1

\* C11: the Collector takes an entry out of the registry only in the step in
\* which it fulfils or fails that entry's future: handling a well-formed
\* result message of our own instance, whatever its result_type, leaves no
\* future out of the registry and still pending.
C11_RegistryPending ==
  [][Collects =>
       LET msg == Head(result_channel)
       IN (WellFormed(msg) /\ msg[1] = instance_id)
            => \A t \in (DOMAIN pending_futures) \ (DOMAIN pending_futures') :
                 Resolved(futures'[pending_futures[t]])]_vars

\* a step of _receive_loop that receives a result message, whatever it does
\* with it
Receives == cpc = "recv" /\ cpc' # "recv"

\* C12: a result message that is not a 4-element tuple, or whose task_id is
\* not in the registry, leaves the registry and every future as they were and
\* the Collector goes back to its poll; the Collector ends only when it has
\* read 'shutdown' on its control socket.
C12_DroppedResults ==
  [][/\ Receives =>
          LET msg == Head(result_channel)
          IN (~WellFormed(msg) \/ msg[2] \notin DOMAIN pending_futures)
               => /\ pending_futures' = pending_futures
                  /\ futures' = futures
                  /\ cpc' = "poll"
     /\ (cpc \notin {"close", "done"} /\ cpc' \in {"close", "done"})
          => "shutdown" \in Range(ctl[receive_thread_ctl_endpoint])]_vars

IsRelay(message) == message \in Range(RelayMessages)

\* C13: the messages other than 'ping' and 'shutdown' sent on the announce
\* socket are, in order and once each, the control messages other than
\* 'shutdown' the Announcer has read, those read in one batch ahead of a
\* 'shutdown' included.
C13_RelayForwarding == SelectSeq(announce_channel, IsRelay) = hist.relay_read

\* a step of _announce_loop that ends a poll cycle and enters the next poll
CycleEnds == apc = "poll" /\ apc' = "poll" /\ announce_channel' # announce_channel

\* C15: at the end of a poll cycle in which less than the heartbeat interval
\* has passed since the last 'ping', the next wait is the interval less the
\* time passed.
C15_HeartbeatCadence ==
  [][CycleEnds =>
       (clock' - last_announce' < server_heartbeat_interval
          => remaining_interval' =
               server_heartbeat_interval - (clock' - last_announce'))]_vars

\* a step in which _announce_loop reads its control socket
AnnouncerReads ==
  apc = "poll" /\ ctl[announce_endpoint] # <<>> /\ ctl'[announce_endpoint] = <<>>

\* C14: when the Announcer reads 'shutdown' it sends 'shutdown' on the
\* announce socket once and leaves its loop; once it has left the loop it
\* does not come back, and nothing is sent after 'shutdown'.
C14_FinalShutdown ==
  [][/\ (AnnouncerReads /\ "shutdown" \in Range(ctl[announce_endpoint]))
          => /\ announce_channel' = Append(announce_channel, "shutdown")
             /\ apc' = "close"
     /\ apc \in {"close", "done"}
          => apc' \in {"close", "done"} /\ announce_channel' = announce_channel
     /\ "shutdown" \in Range(announce_channel)
          => announce_channel' = announce_channel]_vars

\* the loop has relayed a message, has sent a 'ping', has read two
\* 'shutdown' of overlapping shutdown() calls and has ended
C14_Witness ==
  /\ apc = "done"
  /\ hist.shutdown_sent[announce_endpoint] = 2
  /\ "ping" \in Range(announce_channel)
  /\ RelayMessages[1] \in Range(announce_channel)
  /\ announce_channel[Len(announce_channel)] = "shutdown"

\* a worker step that handles a well-formed task whose instance_id is the
\* one the worker has remembered, or the first one it sees
RunsTask(w) ==
  /\ wpc[w] = "run" /\ wpc'[w] # "run"
  /\ ~Malformed(wtask[w])
  /\ last_seen_server_id[w] \in {"None", FirstFive(wtask[w])[1]}

HandlesWrongShape(w) ==
  wpc[w] = "run" /\ wpc'[w] # "run" /\ Len(wtask[w]) # TaskArity

\* C17: a task message that is not a 5-tuple, too short or too long, makes
\* the worker call no function, build and send no result and keep the
\* instance_id it remembers, and the worker receives again.
C17_MalformedTask ==
  [][\A w \in Workers :
       HandlesWrongShape(w) =>
         /\ hist'.invoked = hist.invoked
         /\ wresult'[w] = wresult[w]
         /\ result_channel' = result_channel
         /\ last_seen_server_id'[w] = last_seen_server_id[w]
         /\ wpc'[w] = "recv"]_vars

\* The coordinator's threads take their steps and so does every worker:
\* a worker is ready to receive again and again.
FairUnheard ==
  /\ SpecUnheard
  /\ WF_vars(Startup)
  /\ WF_vars(DispatcherRuns)
  /\ WF_vars(ReceiveSetup)
  /\ WF_vars(AnnounceSetup)
  /\ \A c \in Callers : WF_vars(RegisterFuture(c) \/ AppendTask(c) \/ SignalDispatchLost(c))
  /\ \A w \in Workers : WF_vars(OwnWorker(w))

\* C18: with no shutdown, with workers that keep receiving and with no
\* wake-up signal ever delivered to the dispatcher, every task message
\* appended to the task queue is eventually sent on the task socket: again
\* and again the messages sent are all the messages appended so far.
C18_TimeoutLiveness == []<>(hist.sent = hist.appended)

\* every submit() has returned, no wake-up has reached the dispatcher's
\* control socket, and every task submitted has been sent
C18_Witness ==
  /\ Len(hist.sent) = MaxTasks /\ hist.sent = hist.appended
  /\ AllIdle
  /\ ctl[dispatch_thread_ctl_endpoint] = <<>>

\* C19: however the steps of concurrent shutdown() calls interleave, each
\* loop's control endpoint receives at most one 'shutdown'.
C19_ConcurrentShutdown ==
  \A i \in DOMAIN LoopCtlEndpoints : hist.shutdown_sent[LoopCtlEndpoints[i]] <= 1

\* the task messages of the task queue, in the dispatcher's hands, on the
\* task socket and in the workers' hands, and the result messages the
\* workers hold or have sent
TasksUnderWay ==
  Range(task_queue) \cup Range(task_channel)
  \cup (IF dtask = <<>> THEN {} ELSE {dtask})
  \cup {wtask[w] : w \in {v \in Workers : wtask[v] # <<>>}}
ResultsUnderWay ==
  Range(result_channel) \cup {wresult[w] : w \in {v \in Workers : wresult[v] # <<>>}}

HasPendingEntry(task_id) ==
  /\ task_id \in DOMAIN pending_futures
  /\ futures[pending_futures[task_id]].task_id = task_id
  /\ futures[pending_futures[task_id]].state = "pending"

\* C20: every task message in the task queue or on its way to a worker, and
\* every result message on its way to the Collector, has its future in the
\* registry, pending.
C20_RegisterBeforeEnqueue ==
  /\ \A t \in TasksUnderWay : HasPendingEntry(t[2])
  /\ \A r \in ResultsUnderWay : HasPendingEntry(r[2])

\* a worker's result is on its way to the Collector while another call has
\* registered its future and not yet appended its task
C20_Witness ==
  /\ result_channel # <<>>
  /\ \E c \in Callers : kpc[c] = "append"

====
